---- MODULE Spec2Model ----
(***************************************************************************)
(* The TCP client handler of mavrik (src/ext/mavrik/src/tcp): the          *)
(* length-prefixed codec of util.rs and the poll/react pair of             *)
(* client_handler.rs, with the client, the store and the runtime as the    *)
(* environment.                                                            *)
(***************************************************************************)
EXTENDS Integers, Sequences, FiniteSets, TLC

\* ------------------------------------------------------------------ bounds

\* Frames the client sends on the connection.
MaxRequests == 3

\* AwaitTask requests among them.
MaxAwaits == 2

\* The frames the client sends at most in the liveness checks.
MaxFairRequests == 2

\* ------------------------------------------------------- program constants

\* size_of::<usize>() on the 64-bit targets the service is built for.
HeaderLen == 8

\* Lengths are usize; the model's streams never hold 2^24 bytes, so every
\* length of 2^24 or more is represented by 2^24 (it is only ever compared
\* with the number of bytes available).
LenCap == 256 * 256 * 256

Min(a, b) == IF a < b THEN a ELSE b

Take(s, n) == SubSeq(s, 1, n)

Skip(s, n) == SubSeq(s, n + 1, Len(s))

\* ------------------------------------------------------------ the messages

\* MavrikRequest and MavrikResponse values: a variant tag and its datum
\* (0 for the unit variant).
NewTask(payload) == [type |-> "NewTask", arg |-> payload]

AwaitTask(task_id) == [type |-> "AwaitTask", arg |-> task_id]

GetStoreState == [type |-> "GetStoreState", arg |-> 0]

NewTaskId(task_id) == [type |-> "NewTaskId", arg |-> task_id]

CompletedTask(task_result) == [type |-> "CompletedTask", arg |-> task_result]

StoreState(state) == [type |-> "StoreState", arg |-> state]

\* The payloads and task ids the client uses.
Payloads == {7}

AwaitIds == 1..MaxAwaits

Requests == {NewTask(p) : p \in Payloads} \cup {AwaitTask(i) : i \in AwaitIds}
              \cup {GetStoreState}

RequestTypes == {"NewTask", "AwaitTask", "GetStoreState"}

ResponseTypes == {"NewTaskId", "CompletedTask", "StoreState"}

\* ---------------------------------------------------------- serialization

\* The variant's one-letter name in the JSON text.
Tag(type) ==
    CASE type = "NewTask" -> 78
      [] type = "AwaitTask" -> 65
      [] type = "GetStoreState" -> 71
      [] type = "NewTaskId" -> 73
      [] type = "CompletedTask" -> 67
      [] type = "StoreState" -> 83

UnitTypes == {"GetStoreState"}

\* serde_json::to_string of a message: "G" for the unit variant, {"N":7}
\* for a variant with a datum (a decimal digit).  Bytes are ASCII codes.
to_string(value) ==
    IF value.type \in UnitTypes
    THEN <<34, Tag(value.type), 34>>
    ELSE <<123, 34, Tag(value.type), 34, 58, 48 + value.arg, 125>>

\* serde_json::from_slice into the message type whose variants are `types`:
\* the value, or an error for any bytes that are not the JSON text of one
\* of its variants (the empty payload included).
from_slice(bytes, types) ==
    IF /\ Len(bytes) = 3
       /\ bytes[1] = 34 /\ bytes[3] = 34
       /\ \E t \in types \cap UnitTypes : Tag(t) = bytes[2]
    THEN [ok |-> TRUE,
          value |-> [type |-> CHOOSE t \in types \cap UnitTypes : Tag(t) = bytes[2],
                     arg |-> 0]]
    ELSE IF /\ Len(bytes) = 7
            /\ bytes[1] = 123 /\ bytes[2] = 34 /\ bytes[4] = 34
            /\ bytes[5] = 58 /\ bytes[7] = 125
            /\ bytes[6] \in 48..57
            /\ \E t \in types \ UnitTypes : Tag(t) = bytes[3]
    THEN [ok |-> TRUE,
          value |-> [type |-> CHOOSE t \in types \ UnitTypes : Tag(t) = bytes[3],
                     arg |-> bytes[6] - 48]]
    ELSE [ok |-> FALSE, value |-> [type |-> "none", arg |-> 0]]

\* ----------------------------------------------------------------- framing

\* usize::to_be_bytes for a length below 2^24: the low three bytes carry it.
to_be_bytes(len) ==
    [i \in 1..HeaderLen |->
        IF i = HeaderLen THEN len % 256
        ELSE IF i = HeaderLen - 1 THEN (len \div 256) % 256
        ELSE IF i = HeaderLen - 2 THEN (len \div (256 * 256)) % 256
        ELSE 0]

\* usize::from_be_bytes, saturating at LenCap.
from_be_bytes(len_buf) ==
    IF \E i \in 1..(HeaderLen - 3) : len_buf[i] # 0
    THEN LenCap
    ELSE len_buf[HeaderLen - 2] * 256 * 256 + len_buf[HeaderLen - 1] * 256
           + len_buf[HeaderLen]

\* AsyncReadExt::read_exact polled once: move what the socket holds into
\* the buffer, up to `target` bytes in the buffer.
ReadExact(buf, avail, target) ==
    LET n == Min(target - Len(buf), Len(avail))
    IN  [buf |-> buf \o Take(avail, n), avail |-> Skip(avail, n)]

\* read_deserialized polled once with `buf` read so far: the length header
\* first and, once it is whole, the payload it announces.
ReadFrame(buf, avail) ==
    LET s1 == IF Len(buf) < HeaderLen
              THEN ReadExact(buf, avail, HeaderLen)
              ELSE [buf |-> buf, avail |-> avail]
    IN  IF Len(s1.buf) < HeaderLen
        THEN s1
        ELSE ReadExact(s1.buf, s1.avail,
                       HeaderLen + from_be_bytes(Take(s1.buf, HeaderLen)))

\* Mutant: the payload taken with `read`, whatever has arrived of it.
FrameReadLoose(buf) == Len(buf) >= HeaderLen

\* Both read_exact calls of read_deserialized have returned.
FrameRead(buf) ==
    /\ Len(buf) >= HeaderLen
    /\ Len(buf) = HeaderLen + from_be_bytes(Take(buf, HeaderLen))

\* What write_serialized hands to the stream for `value` when the stream
\* takes `accepted` bytes of the header in the single write call.
HeaderWritten(len, accepted) == Take(to_be_bytes(len), accepted)

WrittenBytes(value, accepted) ==
    LET payload == to_string(value)
    IN  HeaderWritten(Len(payload), accepted) \o payload

\* A frame as the client's own encoder sends it.
Frame(payload) == to_be_bytes(Len(payload)) \o payload

\* What the stream does with the single `write` of the length header: it
\* takes all of it or, its send buffer nearly full, only the first bytes.
AcceptedCounts == {3, HeaderLen}

\* The outcomes of write_serialized(stream, value): success with the bytes
\* handed to the stream, the header write failing, or the payload write
\* failing after the header went out.
write_serialized(value) ==
    {[ok |-> TRUE, bytes |-> WrittenBytes(value, n)] : n \in AcceptedCounts}
      \cup {[ok |-> FALSE, bytes |-> <<>>],
            [ok |-> FALSE, bytes |-> to_be_bytes(Len(to_string(value)))]}

\* ------------------------------------------------------------------- state

VARIABLES
    pc,            \* where the service loop is: "poll", "react", "ended",
                   \* "dropped", "aborted"
    inbuf,         \* bytes received on the socket and not yet read
    inClosed,      \* the peer has closed its sending side
    cliRest,       \* the rest of the frame the client is sending
    cliSent,       \* the payloads of the frames the client has sent so far
    rd,            \* bytes the pending read_deserialized future has read
    output,        \* the TaskOutput poll_task returned, for on_task_ready
    task_results,  \* the JoinSet: one record per retrieval spawned
    nextId,        \* the id the store assigns to the next task pushed
    out,           \* bytes handed to the stream towards the client
    hist,          \* what the handler did, in order
    completed      \* the retrievals, in the order the store completed them

vars == <<pc, inbuf, inClosed, cliRest, cliSent, rd, output, task_results,
          nextId, out, hist, completed>>

NoOutput == [kind |-> "none", value |-> [type |-> "none", arg |-> 0]]

Err(what) == [kind |-> "Err", value |-> [type |-> what, arg |-> 0]]

Event(e, value) == [e |-> e, v |-> value]

ErrEvent(what) == Event("err", [type |-> what, arg |-> 0])

\* TcpClientHandler::new: an empty JoinSet on a fresh connection.
Init ==
    /\ pc = "poll"
    /\ inbuf = <<>>
    /\ inClosed = FALSE
    /\ cliRest = <<>>
    /\ cliSent = <<>>
    /\ rd = <<>>
    /\ output = NoOutput
    /\ task_results = <<>>
    /\ nextId = 1
    /\ out = <<>>
    /\ hist = <<>>
    /\ completed = <<>>

\* The connection is open: the service loop is running.
Open == pc \in {"poll", "react"}

\* ------------------------------------------------------------- the client

\* A frame with a payload that is JSON but no request, and a frame with an
\* empty payload.
BadPayloads == {<<34, 88, 34>>, <<>>}

AwaitPayloads == {to_string(AwaitTask(i)) : i \in AwaitIds}

ClientPayloads == {to_string(r) : r \in Requests} \cup BadPayloads

\* Where the client's frame may be cut into two TCP segments: inside the
\* header, or inside the payload.
SplitPoints == {3, HeaderLen + 2}

\* The AwaitTask requests the client has sent.
AwaitsSent == {i \in 1..Len(cliSent) : cliSent[i] \in AwaitPayloads}

\* The client sends a frame, whole or its first segment only, as long as
\* it has sent fewer than `max`; an AwaitTask is for a task not awaited yet
\* or for task 1 again.
ClientSendUpTo(max) ==
    /\ Open /\ ~inClosed /\ cliRest = <<>>
    /\ Len(cliSent) < max
    /\ \E payload \in ClientPayloads :
         \E k \in {Len(Frame(payload))}
                    \cup {n \in SplitPoints : n < Len(Frame(payload))} :
           /\ payload \in AwaitPayloads =>
                  /\ Cardinality(AwaitsSent) < MaxAwaits
                  /\ payload \in {to_string(AwaitTask(1)),
                                  to_string(AwaitTask(Cardinality(AwaitsSent) + 1))}
           /\ inbuf' = inbuf \o Take(Frame(payload), k)
           /\ cliRest' = Skip(Frame(payload), k)
           /\ cliSent' = Append(cliSent, payload)
    /\ UNCHANGED <<pc, inClosed, rd, output, task_results, nextId, out, hist,
                   completed>>

ClientSend == ClientSendUpTo(MaxRequests)

\* The client of the liveness checks.
ClientSendFair == ClientSendUpTo(MaxFairRequests)

\* The second segment of the client's frame arrives.
ClientFlush ==
    /\ Open /\ ~inClosed /\ cliRest # <<>>
    /\ inbuf' = inbuf \o cliRest
    /\ cliRest' = <<>>
    /\ UNCHANGED <<pc, inClosed, cliSent, rd, output, task_results, nextId,
                   out, hist, completed>>

\* The client closes the connection, between frames or inside one.
ClientClose ==
    /\ Open /\ ~inClosed
    /\ inClosed' = TRUE
    /\ cliRest' = <<>>
    /\ UNCHANGED <<pc, inbuf, cliSent, rd, output, task_results, nextId, out,
                   hist, completed>>

\* --------------------------------------------------------------- the store

\* How a pull can end: with the task's result, with a store error, or with
\* the retrieval task panicking (a JoinError for the handler).
PullOutcomes == {"ok", "err", "panic"}

InFlight(tr) == {i \in 1..Len(tr) : tr[i].st # "joined"}

Finished(tr) == {i \in 1..Len(tr) : tr[i].st \in PullOutcomes}

\* The store completes the pull of a running retrieval.
StoreComplete ==
    /\ \E i \in 1..Len(task_results), o \in PullOutcomes :
         /\ task_results[i].st = "running"
         /\ task_results' = [task_results EXCEPT ![i].st = o]
         /\ completed' = Append(completed, i)
    /\ UNCHANGED <<pc, inbuf, inClosed, cliRest, cliSent, rd, output, nextId,
                   out, hist>>

\* ------------------------------------------------------------- the handler

\* The service driver's loop: poll_task, then on_task_ready with its
\* output, again while on_task_ready returns Ok.
ServiceLoop(ok) == IF ok THEN "poll" ELSE "ended"

\* Mutant: no second retrieval for a task that is being awaited already.
SpawnOnce(tr, task_id) ==
    IF \E i \in 1..Len(tr) : tr[i].tid = task_id /\ tr[i].st # "joined"
    THEN tr
    ELSE Append(tr, [tid |-> task_id, st |-> "running"])

\* JoinSet::spawn of `store.pull(task_id)`.
Spawn(tr, task_id) == Append(tr, [tid |-> task_id, st |-> "running"])

\* Mutant: the retrievals awaited in the order they were registered.
JoinReadyFifo(tr) == {i \in Finished(tr) : \A j \in InFlight(tr) : i <= j}

\* Mutant: the joined task stays in the set.
JoinNextKeeps(tr, i) == tr

\* Mutant: the join takes every finished task out of the set.
JoinNextDrains(tr, i) ==
    [k \in 1..Len(tr) |->
       IF tr[k].st \in PullOutcomes THEN [tr[k] EXCEPT !.st = "joined"] ELSE tr[k]]

\* JoinSet::join_next takes a finished task out of the set.  It returns
\* one of the finished tasks; which one, when several have finished before
\* the handler polls, is the runtime's choice.
JoinReady(tr) == Finished(tr)

JoinNext(tr, i) == [tr EXCEPT ![i].st = "joined"]

\* Mutant: a failed retrieval answered like a successful one.
JoinOutputLenient(task) ==
    [kind |-> "TaskResult", value |-> [type |-> "TaskResult", arg |-> task.tid]]

\* What join_next's result becomes in poll_task.
JoinOutput(task) ==
    IF task.st = "ok"
    THEN [kind |-> "TaskResult", value |-> [type |-> "TaskResult", arg |-> task.tid]]
    ELSE IF task.st = "panic" THEN Err("join") ELSE Err("pull")

\* read_deserialized's result once the frame is read: the value
\* deserialized from the payload, or the deserialization error.
Deserialized(payload, types) ==
    LET parsed == from_slice(payload, types)
    IN  IF parsed.ok
        THEN [kind |-> "Value", value |-> parsed.value]
        ELSE Err("json")

\* Mutant: the value read is returned as a retrieval's result.
ReadOutputAsResult(result) ==
    IF result.kind = "Value"
    THEN [kind |-> "TaskResult", value |-> result.value]
    ELSE result

\* What read_deserialized's result becomes in poll_task.
ReadOutput(result) ==
    IF result.kind = "Value"
    THEN [kind |-> "Request", value |-> result.value]
    ELSE result

\* read_exact at the end of the stream, with `buf` read so far: the error
\* of the length header's read or of the payload's.
ReadError(buf) == IF Len(buf) < HeaderLen THEN Err("length") ELSE Err("payload")

\* The read future that loses the select is dropped with what it has read.
CancelRead(buf) == <<>>

\* poll_task, the read branch, polled with bytes on the socket.
PollRead ==
    /\ pc = "poll"
    /\ inbuf # <<>>
    /\ LET s == ReadFrame(rd, inbuf)
       IN  /\ inbuf' = s.avail
           /\ \/ /\ FrameRead(s.buf)
                 /\ output' = ReadOutput(Deserialized(Skip(s.buf, HeaderLen),
                                                       RequestTypes))
                 /\ rd' = <<>>
                 /\ pc' = "react"
                 /\ hist' = IF output'.kind = "Request"
                            THEN Append(hist, Event("req", output'.value))
                            ELSE hist
              \/ /\ ~FrameRead(s.buf) /\ ~inClosed
                 /\ rd' = s.buf
                 /\ UNCHANGED <<pc, output, hist>>
              \* vec![0u8; len] for a length no allocator serves
              \/ /\ Len(rd) < HeaderLen /\ Len(s.buf) >= HeaderLen
                 /\ from_be_bytes(Take(s.buf, HeaderLen)) >= LenCap
                 /\ rd' = s.buf
                 /\ pc' = "aborted"
                 /\ UNCHANGED <<output, hist>>
    /\ UNCHANGED <<inClosed, cliRest, cliSent, task_results, nextId, out,
                   completed>>

\* poll_task, the read branch, at the end of the stream: read_exact fails
\* with what is left short of the header or of the payload.
PollReadEof ==
    /\ pc = "poll"
    /\ inClosed
    /\ ~FrameRead(ReadFrame(rd, inbuf).buf)
    /\ inbuf' = <<>>
    /\ rd' = <<>>
    /\ output' = ReadOutput(ReadError(ReadFrame(rd, inbuf).buf))
    /\ pc' = "react"
    /\ UNCHANGED <<inClosed, cliRest, cliSent, task_results, nextId, out,
                   hist, completed>>

\* poll_task, the join branch: a finished retrieval wins the select.
PollJoin ==
    /\ pc = "poll"
    /\ InFlight(task_results) # {}
    /\ \E i \in JoinReady(task_results) :
         /\ output' = JoinOutput(task_results[i])
         /\ task_results' = JoinNext(task_results, i)
         /\ hist' = Append(hist, Event("join", [type |-> task_results[i].st, arg |-> i]))
    /\ rd' = CancelRead(rd)
    /\ pc' = "react"
    /\ UNCHANGED <<inbuf, inClosed, cliRest, cliSent, nextId, out, completed>>

\* on_task_ready returns: the driver goes on or ends the loop.
Return(ok, h) ==
    /\ pc' = ServiceLoop(ok)
    /\ hist' = h
    /\ output' = NoOutput

\* Mutant: the response is not written before on_task_ready returns.
ReplyNothing(response, h) == out' = out /\ Return(TRUE, h)

\* write_serialized of a response, and on_task_ready's return after it.
Reply(response, h) ==
    \E w \in write_serialized(response) :
      /\ out' = out \o w.bytes
      /\ Return(w.ok, IF w.ok THEN Append(h, Event("resp", response))
                              ELSE Append(h, ErrEvent("write")))

\* Mutant: the response carries the id of the push before.
NewTaskResponseStale(task_id) == NewTaskId(task_id - 1)

\* The response to a NewTask.
NewTaskResponse(task_id) == NewTaskId(task_id)

\* Mutant: the error is logged and on_task_ready returns Ok.
ReactErrIgnored ==
    /\ pc = "react" /\ output.kind = "Err"
    /\ Return(TRUE, Append(hist, ErrEvent(output.value.type)))
    /\ UNCHANGED <<inbuf, inClosed, cliRest, cliSent, rd, task_results,
                   nextId, out, completed>>

\* on_task_ready with an error from poll_task: `output?`.
ReactErr ==
    /\ pc = "react" /\ output.kind = "Err"
    /\ Return(FALSE, Append(hist, ErrEvent(output.value.type)))
    /\ UNCHANGED <<inbuf, inClosed, cliRest, cliSent, rd, task_results,
                   nextId, out, completed>>

\* handle_request, NewTask: push, then the NewTaskId response.
HandleNewTask ==
    /\ pc = "react" /\ output.kind = "Request"
    /\ output.value.type = "NewTask"
    /\ \/ /\ nextId' = nextId + 1
          /\ Reply(NewTaskResponse(nextId),
                   Append(hist, Event("push", [type |-> "ok", arg |-> nextId])))
       \/ /\ Return(FALSE, hist \o <<Event("push", [type |-> "err", arg |-> 0]),
                                     ErrEvent("push")>>)
          /\ UNCHANGED <<nextId, out>>
    /\ UNCHANGED <<inbuf, inClosed, cliRest, cliSent, rd, task_results,
                   completed>>

\* handle_request, AwaitTask: spawn the retrieval, no response.
HandleAwaitTask ==
    /\ pc = "react" /\ output.kind = "Request"
    /\ output.value.type = "AwaitTask"
    /\ task_results' = Spawn(task_results, output.value.arg)
    /\ Return(TRUE, Append(hist, Event("spawn", [type |-> "pull", arg |-> output.value.arg])))
    /\ UNCHANGED <<inbuf, inClosed, cliRest, cliSent, rd, nextId, out,
                   completed>>

\* handle_request, GetStoreState: query, then the StoreState response.
HandleGetStoreState ==
    /\ pc = "react" /\ output.kind = "Request"
    /\ output.value.type = "GetStoreState"
    /\ \/ Reply(StoreState(nextId - 1),
                Append(hist, Event("state", [type |-> "ok", arg |-> nextId - 1])))
       \/ /\ Return(FALSE, hist \o <<Event("state", [type |-> "err", arg |-> 0]),
                                     ErrEvent("state")>>)
          /\ UNCHANGED out
    /\ UNCHANGED <<inbuf, inClosed, cliRest, cliSent, rd, task_results,
                   nextId, completed>>

\* handle_task_result: the CompletedTask response.
HandleTaskResult ==
    /\ pc = "react" /\ output.kind = "TaskResult"
    /\ Reply(CompletedTask(output.value.arg), hist)
    /\ UNCHANGED <<inbuf, inClosed, cliRest, cliSent, rd, task_results,
                   nextId, completed>>

\* What dropping the JoinSet does to a task: a running one is aborted.
DropTask(task) == IF task.st = "running" THEN [task EXCEPT !.st = "aborted"] ELSE task

\* Mutant: the drop joins the retrievals still running first.
DropHandlerWaits ==
    /\ pc = "ended"
    /\ \A i \in 1..Len(task_results) : task_results[i].st # "running"
    /\ pc' = "dropped"
    /\ UNCHANGED <<inbuf, inClosed, cliRest, cliSent, rd, output, task_results,
                   nextId, out, hist, completed>>

\* The loop has ended: the handler is dropped, its stream and JoinSet with it.
DropHandler ==
    /\ pc = "ended"
    /\ pc' = "dropped"
    /\ task_results' = [i \in 1..Len(task_results) |-> DropTask(task_results[i])]
    /\ UNCHANGED <<inbuf, inClosed, cliRest, cliSent, rd, output, nextId, out,
                   hist, completed>>

Handler ==
    \/ PollRead
    \/ PollReadEof
    \/ PollJoin
    \/ ReactErr
    \/ HandleNewTask
    \/ HandleAwaitTask
    \/ HandleGetStoreState
    \/ HandleTaskResult
    \/ DropHandler

Next ==
    \/ ClientSend
    \/ ClientFlush
    \/ ClientClose
    \/ StoreComplete
    \/ Handler

Spec == Init /\ [][Next]_vars

FairNext ==
    \/ ClientSendFair
    \/ ClientFlush
    \/ ClientClose
    \/ StoreComplete
    \/ Handler

\* The handler's task and the runtime that drops it are scheduled: a step
\* of the handler that stays possible is taken.
FairSpec == Init /\ [][FairNext]_vars /\ WF_vars(Handler)

\* ------------------------------------------------------------------ claims

IsReq(k, types) == hist[k].e = "req" /\ hist[k].v.type \in types

IsResp(k, types) == hist[k].e = "resp" /\ hist[k].v.type \in types

\* C1: a NewTask whose push succeeded gets exactly one NewTaskId response,
\* carrying the id the store returned, written in the same on_task_ready
\* call, before any later request is decoded; a NewTaskId response is only
\* ever written for such a push.  (Only a failing write, which ends the
\* loop, can take the response's place.)
C1_NewTaskIdOncePerPush ==
    /\ \A k \in 1..Len(hist) :
         (hist[k].e = "push" /\ hist[k].v.type = "ok") =>
           /\ k > 1 /\ IsReq(k - 1, {"NewTask"})
           /\ k < Len(hist)
           /\ \/ hist[k + 1] = Event("resp", NewTaskId(hist[k].v.arg))
              \/ hist[k + 1] = ErrEvent("write") /\ k + 1 = Len(hist) /\ ~Open
    /\ \A k \in 1..Len(hist) :
         IsResp(k, {"NewTaskId"}) =>
           /\ k > 2
           /\ hist[k - 1] = Event("push", [type |-> "ok", arg |-> hist[k].v.arg])
    /\ \A j \in 1..Len(hist), m \in 1..Len(hist) :
         (IsReq(j, {"NewTask"}) /\ j < m /\ hist[m].e \in {"req", "resp", "join"}
            /\ hist[j + 1].v.type = "ok") =>
           /\ IsResp(j + 2, {"NewTaskId"})
           /\ Cardinality({k \in j..m : IsResp(k, {"NewTaskId"})}) >= 1
           /\ Cardinality({k \in j..(j + 2) : IsResp(k, {"NewTaskId"})}) = 1

\* A NewTask was answered and a later request has been decoded.
C1_Witness ==
    \E k \in 1..Len(hist), m \in 1..Len(hist) :
      /\ IsResp(k, {"NewTaskId"}) /\ k < m /\ hist[m].e = "req"

SyncTypes == {"NewTask", "GetStoreState"}

\* The response type that answers a synchronous request.
AnswerOf(type) == IF type = "NewTask" THEN "NewTaskId" ELSE "StoreState"

\* The position in hist of the response written for the synchronous
\* request decoded at position j (0 when none was written).
RespPos(j) ==
    IF j + 2 <= Len(hist) /\ IsResp(j + 2, {AnswerOf(hist[j].v.type)})
    THEN j + 2 ELSE 0

\* C3: of two synchronous requests decoded one after the other, the first
\* one's response is written (its write_serialized call has returned)
\* before the second is decoded, so before the second one's response; no
\* CompletedTask response and no join comes between a synchronous request
\* and its response.
C3_SyncResponsesInRequestOrder ==
    \A j \in 1..Len(hist), m \in 1..Len(hist) :
      (IsReq(j, SyncTypes) /\ IsReq(m, SyncTypes) /\ j < m) =>
        /\ RespPos(j) # 0
        /\ RespPos(j) < m
        /\ (RespPos(m) # 0 => RespPos(j) < RespPos(m))
        /\ \A k \in (j + 1)..(RespPos(j) - 1) : hist[k].e \in {"push", "state"}

\* Two synchronous requests were answered with a CompletedTask response
\* written in between.
C3_Witness ==
    \E j \in 1..Len(hist), c \in 1..Len(hist), m \in 1..Len(hist) :
      /\ IsReq(j, SyncTypes) /\ IsReq(m, SyncTypes)
      /\ j < c /\ c < m /\ IsResp(c, {"CompletedTask"})
      /\ RespPos(m) # 0

\* The retrieval in slot i was joined with its result and the CompletedTask
\* response carrying that result was written next.
Responded(i) ==
    \E k \in 1..(Len(hist) - 1) :
      /\ hist[k] = Event("join", [type |-> "ok", arg |-> i])
      /\ hist[k + 1] = Event("resp", CompletedTask(task_results[i].tid))

\* Never two: a slot is joined at most once, a successful join is followed
\* by its one CompletedTask response (or by the failing write that ends the
\* loop), and every CompletedTask response follows such a join.
C2_AtMostOnce ==
    /\ \A k \in 1..Len(hist), m \in 1..Len(hist) :
         (hist[k].e = "join" /\ hist[m].e = "join" /\ hist[k].v.arg = hist[m].v.arg)
           => k = m
    /\ \A k \in 1..Len(hist) :
         IsResp(k, {"CompletedTask"}) =>
           /\ k > 1 /\ hist[k - 1].e = "join" /\ hist[k - 1].v.type = "ok"
           /\ hist[k - 1].v.arg \in 1..Len(task_results)
           /\ task_results[hist[k - 1].v.arg].tid = hist[k].v.arg
    /\ \A k \in 1..(Len(hist) - 1) :
         (hist[k].e = "join" /\ hist[k].v.type = "ok") =>
           \/ IsResp(k + 1, {"CompletedTask"})
           \/ hist[k + 1] = ErrEvent("write") /\ ~Open

\* The retrievals whose result the client is owed: finished with a result
\* and not joined yet, or joined and the response not written yet.
Owed ==
    {i \in 1..Len(task_results) :
       \/ task_results[i].st = "ok"
       \/ /\ \E k \in 1..Len(hist) : hist[k] = Event("join", [type |-> "ok", arg |-> i])
          /\ ~Responded(i)}

\* C2: every retrieval spawned for an AwaitTask whose pull succeeds gets
\* its CompletedTask response, exactly one, as long as the connection stays
\* open: the handler does not stay open with a result owed, whatever the
\* client does or does not send.
C2_AwaitYieldsOneCompletedTask ==
    /\ []C2_AtMostOnce
    /\ []<>(~Open \/ Owed = {})

\* A retrieval's response was written with the client idle since its
\* AwaitTask: nothing sent after it, nothing left to read.
C2_Witness ==
    /\ Open /\ Len(task_results) >= 1 /\ Responded(1)
    /\ Len(cliSent) = 1 /\ inbuf = <<>> /\ cliRest = <<>> /\ ~inClosed

\* The positions in hist of slot i's join and of the response written for
\* it (0 when there is none).
JoinPos(i) ==
    IF \E k \in 1..Len(hist) : hist[k].e = "join" /\ hist[k].v.arg = i
    THEN CHOOSE k \in 1..Len(hist) : hist[k].e = "join" /\ hist[k].v.arg = i
    ELSE 0

CompletedPos(i) ==
    IF JoinPos(i) # 0 /\ JoinPos(i) < Len(hist)
       /\ IsResp(JoinPos(i) + 1, {"CompletedTask"})
    THEN JoinPos(i) + 1 ELSE 0

\* The store completed slot y's pull before slot x's.
CompletedBefore(y, x) ==
    \E p \in 1..Len(completed), q \in 1..Len(completed) :
      p < q /\ completed[p] = y /\ completed[q] = x

\* The store completed slot i's pull with the task's result.
Succeeded(i) ==
    \/ task_results[i].st = "ok"
    \/ JoinPos(i) # 0 /\ hist[JoinPos(i)].v.type = "ok"

Quiescent ==
    /\ pc = "poll" /\ ~inClosed
    /\ inbuf = <<>> /\ cliRest = <<>>
    /\ JoinReady(task_results) = {}

\* The requests decoded so far, in order.
Decoded == [k \in 1..Len(SelectSeq(hist, LAMBDA ev : ev.e = "req")) |->
              SelectSeq(hist, LAMBDA ev : ev.e = "req")[k].v]

\* C5 as stated: with a retrieval pending, every request the client has
\* sent is decoded and processed once the handler is idle again.
C5_PendingNeverBlocks ==
    (/\ Quiescent
     /\ \E x \in 1..Len(task_results) : task_results[x].st = "running"
     /\ \A k \in 1..Len(cliSent) : cliSent[k] \notin BadPayloads)
      => Decoded = [k \in 1..Len(cliSent) |-> from_slice(cliSent[k], RequestTypes).value]

\* The responses written so far, in order.
Responses == [k \in 1..Len(SelectSeq(hist, LAMBDA ev : ev.e = "resp")) |->
                SelectSeq(hist, LAMBDA ev : ev.e = "resp")[k].v]

\* The client reading the stream with read_deserialized, frame after
\* frame, until the bytes run out or a read fails.
RECURSIVE DecodeAll(_, _)
DecodeAll(bytes, types) ==
    IF bytes = <<>>
    THEN <<>>
    ELSE LET s == ReadFrame(<<>>, bytes)
         IN  IF ~FrameRead(s.buf)
             THEN <<ReadError(s.buf)>>
             ELSE <<Deserialized(Skip(s.buf, HeaderLen), types)>> \o DecodeAll(s.avail, types)

\* C7 as stated, for the responses the handler writes: reading back what
\* write_serialized handed to the stream returns the values written, each
\* frame read from its own first byte.
C7_RoundTrip ==
    Open =>
      DecodeAll(out, ResponseTypes)
        = [k \in 1..Len(Responses) |-> [kind |-> "Value", value |-> Responses[k]]]

Last(seq) == seq[Len(seq)]

StoreErrs == {"push", "state", "pull", "join"}

\* hist[k] records a store operation that failed: a push, a query, or a
\* retrieval joined with the store's error or with a JoinError.
StoreFailure(k) ==
    \/ hist[k].e \in {"push", "state"} /\ hist[k].v.type = "err"
    \/ hist[k].e = "join" /\ hist[k].v.type \in {"err", "panic"}

\* After a store failure the one thing the handler does is return the
\* error: no response, no further store call, no further request.
C6_FailureIsLast ==
    \A k \in 1..Len(hist) :
      StoreFailure(k) =>
        \/ k = Len(hist) /\ pc = "react" /\ output.kind = "Err"
        \/ /\ k + 1 = Len(hist) /\ ~Open
           /\ hist[k + 1].e = "err" /\ hist[k + 1].v.type \in StoreErrs

\* C6: a failed push, query or retrieval (a JoinError included) makes the
\* poll/react pair return an error, which ends the loop; the operation is
\* not invoked again and no byte is written for the failed request or
\* retrieval, nor afterwards.
C6_StoreErrorIsFatal ==
    /\ []C6_FailureIsLast
    /\ [][(hist' # hist /\ Last(hist').e = "err" /\ Last(hist').v.type \in StoreErrs)
            => (out' = out /\ pc' = "ended")]_vars
    /\ [][~Open => (out' = out /\ hist' = hist /\ nextId' = nextId)]_vars

\* The loop has ended on a failed retrieval while another retrieval was
\* still in flight and responses had been written before.
C6_Witness ==
    /\ pc = "ended" /\ Last(hist) = ErrEvent("pull")
    /\ \E i \in 1..Len(task_results) : task_results[i].st = "running"

\* The frame whole: both read_exact calls are satisfied by `buf`.
Whole(buf) ==
    /\ Len(buf) >= HeaderLen
    /\ Len(buf) = HeaderLen + from_be_bytes(Take(buf, HeaderLen))

\* poll_task returns from its read branch in this step.
ReadReturns == pc = "poll" /\ pc' = "react" /\ task_results' = task_results

\* C8: the read returns a request only from a frame read whole, header and
\* payload; with the stream closed short of the header or short of the
\* payload it returns the read's error, poll_task reports it, and nothing
\* is dispatched for it.
C8_ShortReadIsError ==
    /\ [][ReadReturns =>
            LET buf == ReadFrame(rd, inbuf).buf
            IN  IF Whole(buf)
                THEN output' = ReadOutput(Deserialized(Skip(buf, HeaderLen), RequestTypes))
                ELSE /\ inClosed
                     /\ output' = Err(IF Len(buf) < HeaderLen THEN "length" ELSE "payload")
                     /\ hist' = hist]_vars
    /\ [][(pc = "react" /\ output.kind = "Err")
            => /\ [k \in 1..Len(hist) |-> hist'[k]] = hist
               /\ hist' # hist => (Last(hist') = ErrEvent(output.value.type) /\ pc' = "ended")
               /\ out' = out /\ nextId' = nextId
               /\ Len(task_results') = Len(task_results)]_vars

\* The stream closed after the header and before the whole payload: the
\* read failed and no request came of the frame.
C8_Witness ==
    /\ pc = "ended" /\ Last(hist) = ErrEvent("payload")
    /\ Len(cliSent) = 1 /\ Len(hist) = 1

ReadErrs == {"length", "payload", "json"}

\* C9: an error of the read (the stream ending, a payload that is no
\* request) is the last thing that happens on the connection: the loop
\* ends, nothing is decoded or dispatched after it, and no byte is written
\* to the client, from the moment poll_task returns the error.
C9_ReadErrorEndsLoop ==
    /\ [](\A k \in 1..Len(hist) :
            (hist[k].e = "err" /\ hist[k].v.type \in ReadErrs)
              => (k = Len(hist) /\ ~Open))
    /\ [][((pc = "react" /\ output.kind = "Err") \/ ~Open)
            => /\ out' = out /\ nextId' = nextId
               /\ Len(task_results') = Len(task_results)
               /\ Decoded' = Decoded
               /\ pc' # "poll"]_vars

\* The loop has ended on a payload that is no request, with responses
\* written before it and a later frame of the client left unread.
C9_Witness ==
    /\ pc = "ended" /\ Last(hist) = ErrEvent("json")
    /\ out # <<>> /\ inbuf # <<>>

\* C10: once the loop has ended the handler is dropped, whatever its
\* retrievals are doing, and the error that ended the loop is the only one.
C10_ShutdownCompletes ==
    /\ [](Cardinality({k \in 1..Len(hist) : hist[k].e = "err"}) <= 1)
    /\ []<>(pc # "ended")

\* The handler was dropped with a retrieval that never completed.
C10_Witness ==
    /\ pc = "dropped"
    /\ \E i \in 1..Len(task_results) : task_results[i].st = "aborted"

\* C11 as stated: a retrieval in flight when the handler ended is detached,
\* not stopped: after the handler is gone it is still running its pull, or
\* the store has completed it since.
C11_RetrievalsDetached ==
    pc = "dropped" =>
      \A i \in 1..Len(task_results) :
        task_results[i].st \in {"running", "joined"} \cup PullOutcomes

\* poll_task returns from its join branch in this step.
JoinReturns == pc = "poll" /\ pc' = "react" /\ task_results' # task_results

\* C12 as stated: a poll that returns a retrieval's outcome changes nothing
\* but what it returns: the in-flight set loses the returned retrieval only,
\* and the stream is where it was, no byte read off it by this poll being
\* dropped.
C12_PollOnlyProducesOutcome ==
    [][JoinReturns =>
         /\ \E i \in InFlight(task_results) :
              InFlight(task_results') = InFlight(task_results) \ {i}
         /\ inbuf' = inbuf
         /\ rd' = rd]_vars

\* C13: with no retrieval in flight the join branch is off; poll_task
\* returns from the read only, a request or the read's error and never a
\* retrieval's outcome, and only once the frame is read whole or the read
\* has failed at the end of the stream.
C13_EmptySetReadsOnly ==
    /\ []((pc = "poll" /\ InFlight(task_results) = {}) => ~ENABLED PollJoin)
    /\ [][(pc = "poll" /\ InFlight(task_results) = {} /\ pc' = "react") =>
            /\ task_results' = task_results
            /\ \/ output'.kind = "Request"
               \/ output'.kind = "Err" /\ output'.value.type \in ReadErrs
            /\ \/ Whole(ReadFrame(rd, inbuf).buf)
               \/ inClosed /\ output'.kind = "Err"]_vars

\* poll_task has returned a request after every retrieval registered on
\* the connection had been joined.
C13_Witness ==
    /\ pc = "react" /\ output.kind = "Request"
    /\ Len(task_results) >= 1 /\ InFlight(task_results) = {}

\* on_task_ready dispatches an AwaitTask in this step.
AwaitDispatched ==
    /\ pc = "react" /\ output.kind = "Request"
    /\ output.value.type = "AwaitTask"
    /\ pc' # pc

\* C14: dispatching AwaitTask(id) appends one running retrieval for id to
\* the set, leaves the retrievals already there as they are, writes no byte
\* and returns Ok, whether or not id is being awaited already and whatever
\* the store will make of the pull.
C14_AwaitAddsOneRetrieval ==
    [][AwaitDispatched =>
         /\ Len(task_results') = Len(task_results) + 1
         /\ Last(task_results') = [tid |-> output.value.arg, st |-> "running"]
         /\ \A i \in 1..Len(task_results) : task_results'[i] = task_results[i]
         /\ InFlight(task_results')
              = InFlight(task_results) \cup {Len(task_results) + 1}
         /\ out' = out
         /\ pc' = "poll"]_vars

\* Two retrievals for the same task are in flight at once, and the second
\* one's pull has failed in the store.
C14_Witness ==
    /\ Len(task_results) = 2
    /\ task_results[1].tid = task_results[2].tid
    /\ task_results[1].st = "running"
    /\ task_results[2].st = "err"

\* write_serialized returns Ok for a response in this step.
Written == hist' # hist /\ Last(hist').e = "resp"

\* C15 as stated: what write_serialized emits for a value is HeaderLen
\* bytes holding the payload's length big-endian, the header not counted,
\* and then the payload; what read_deserialized takes off the stream for a
\* request is HeaderLen bytes and then as many as they announce.
C15_LengthHeader ==
    /\ [][Written =>
            LET emitted == Skip(out', Len(out))
                payload == to_string(Last(hist').v)
            IN  /\ Len(emitted) >= HeaderLen
                /\ Take(emitted, HeaderLen) = to_be_bytes(Len(payload))
                /\ from_be_bytes(Take(emitted, HeaderLen)) = Len(emitted) - HeaderLen
                /\ Skip(emitted, HeaderLen) = payload]_vars
    /\ [][(ReadReturns /\ output'.kind = "Request") =>
            LET taken == rd \o Take(inbuf, Len(inbuf) - Len(inbuf'))
            IN  /\ Len(taken) >= HeaderLen
                /\ Len(taken) = HeaderLen + from_be_bytes(Take(taken, HeaderLen))]_vars

\* The frames of the payloads, one after the other.
RECURSIVE Wire(_)
Wire(payloads) ==
    IF payloads = <<>>
    THEN <<>>
    ELSE Frame(Head(payloads)) \o Wire(Tail(payloads))

\* C17 as stated: while the handler carries on, the bytes handed to the
\* stream are the whole frames of the responses written, each with all
\* HeaderLen header bytes and all its payload bytes.
C17_WholeFramesWritten ==
    Open => out = Wire([k \in 1..Len(Responses) |-> to_string(Responses[k])])

\* C16 as stated: whenever the handler polls, the requests dispatched so
\* far are the first frames the client sent, in order, and every byte sent
\* after them is still to be read or is held by the pending read: nothing
\* is lost, duplicated or misaligned, whatever retrievals completed
\* meanwhile.
C16_NoBytesLost ==
    (pc = "poll" /\ ~inClosed) =>
      /\ Len(Decoded) <= Len(cliSent)
      /\ Decoded = [k \in 1..Len(Decoded) |->
                      from_slice(cliSent[k], RequestTypes).value]
      /\ Wire(cliSent)
           = Wire(SubSeq(cliSent, 1, Len(Decoded))) \o rd \o inbuf \o cliRest

\* The AwaitTask requests dispatched: those decoded, but for the one
\* on_task_ready has not been called with yet.
AwaitsDispatched ==
    Cardinality({k \in 1..Len(hist) : IsReq(k, {"AwaitTask"})})
      - (IF pc = "react" /\ output.kind = "Request"
            /\ output.value.type = "AwaitTask"
         THEN 1 ELSE 0)

\* The retrieval outcomes poll_task has returned.
OutcomesReturned == Cardinality({k \in 1..Len(hist) : hist[k].e = "join"})

\* The position in hist of the dispatch that registered slot i.
SpawnPos(i) ==
    CHOOSE k \in 1..Len(hist) :
      /\ hist[k].e = "spawn"
      /\ Cardinality({j \in 1..k : hist[j].e = "spawn"}) = i

\* C18: on an open connection the AwaitTask requests dispatched are as many
\* as the retrievals in flight and the outcomes poll_task has returned
\* together; a CompletedTask response carries the result of the retrieval
\* just joined, registered by an earlier AwaitTask for that task, and no
\* retrieval is joined twice.
C18_RetrievalsAccounted ==
    /\ Open => AwaitsDispatched
                 = Cardinality(InFlight(task_results)) + OutcomesReturned
    /\ \A k \in 1..Len(hist) :
         IsResp(k, {"CompletedTask"}) =>
           /\ k > 1 /\ hist[k - 1].e = "join" /\ hist[k - 1].v.type = "ok"
           /\ hist[k - 1].v.arg \in 1..AwaitsDispatched
           /\ SpawnPos(hist[k - 1].v.arg) < k - 1
           /\ hist[SpawnPos(hist[k - 1].v.arg)].v.arg = hist[k].v.arg
           /\ hist[SpawnPos(hist[k - 1].v.arg) - 1] = Event("req", AwaitTask(hist[k].v.arg))
    /\ \A k \in 1..Len(hist), m \in 1..Len(hist) :
         (hist[k].e = "join" /\ hist[m].e = "join" /\ k # m)
           => hist[k].v.arg # hist[m].v.arg

\* The connection is open after two AwaitTask requests: one retrieval
\* joined and answered, the other finished and waiting to be joined.
C18_Witness ==
    /\ pc = "poll" /\ Len(task_results) = 2
    /\ task_results[1].st = "joined" /\ Responded(1)
    /\ task_results[2].st \in PullOutcomes

====
